---------------------------- MODULE Spec2Model ----------------------------
(***************************************************************************)
(* A model of ntree (src/ntree.c): main prints the root path and calls     *)
(* list_directory_recursive, which reads a directory into a growable array *)
(* of DirEntry, sorts it with compareDirEntries and prints one line per    *)
(* entry, recursing into the entries recorded as directories.              *)
(*                                                                         *)
(* Strings are sequences of bytes (0..255).  The filesystem is a fixed     *)
(* tree of nodes; opendir, readdir and stat are modelled by what they      *)
(* return for a path string.  The C call stack is the variable stack, one  *)
(* record per active call of list_directory_recursive.                     *)
(***************************************************************************)
EXTENDS Integers, Sequences, FiniteSets, TLC

(***************************************************************************)
(* Bounds of the model.                                                    *)
(***************************************************************************)
\* Size in bytes of the buffers full_path and new_prefix.  The program's
\* PATH_MAX is 4096 (src/ntree.c:10, or limits.h); the model runs the same
\* code with smaller buffers, so that the paths and prefixes of small trees
\* reach the buffer size.
PathMax == 12
\* The longest root arguments tried are PathMax-1 .. PathMax-MaxSlack bytes.
MaxSlack == 4
\* Number of calls of list_directory_recursive the process stack can hold.
StackFrames == 5
\* A directory stream of more than MaxPermute unread names yields the least
\* one next; the last MaxPermute names come in any order.
MaxPermute == 4
\* Number of allocation requests that may fail in one run.
MaxOom == 1

PATH_MAX == PathMax

\* int capacity = 10;
INITIAL_CAPACITY == 10

(***************************************************************************)
(* Byte strings.                                                           *)
(***************************************************************************)
Min(a, b) == IF a <= b THEN a ELSE b

Str_dot == <<46>>
Str_dotdot == <<46, 46>>
Str_slash == <<47>>
\* "    " and "│   " (U+2502 is E2 94 82 in UTF-8)
Str_spaces == <<32, 32, 32, 32>>
Str_bar == <<226, 148, 130, 32, 32, 32>>

\* strcmp: the sign of the first differing pair of bytes, compared as
\* unsigned char; a proper prefix is less than its extensions.
RECURSIVE strcmp(_, _)
strcmp(s, t) ==
    IF s = <<>> /\ t = <<>> THEN 0
    ELSE IF s = <<>> THEN -1
    ELSE IF t = <<>> THEN 1
    ELSE IF Head(s) < Head(t) THEN -1
    ELSE IF Head(s) > Head(t) THEN 1
    ELSE strcmp(Tail(s), Tail(t))

\* snprintf(buf, size, "%s%s", ...): at most size-1 bytes of the formatted
\* string are stored; the rest is dropped without a diagnostic.
snprintf(size, s) == SubSeq(s, 1, Min(Len(s), size - 1))

\* snprintf(full_path, sizeof(full_path), "%s/%s", path, name)
JoinPath(path, name) == snprintf(PATH_MAX, path \o Str_slash \o name)

\* snprintf(new_prefix, sizeof(new_prefix), "%s%s", prefix,
\*          is_last_entry ? "    " : "│   ")
NewPrefix(prefix, is_last_entry) ==
    snprintf(PATH_MAX, prefix \o (IF is_last_entry THEN Str_spaces ELSE Str_bar))


(***************************************************************************)
(* The filesystem.  A tree is a set of nodes [p, k]: p the sequence of     *)
(* names from the working directory to the node, k its kind:               *)
(*   "dir"    a directory that can be listed,                              *)
(*   "nodir"  a directory that cannot be opened or searched (mode 000),    *)
(*   "file"   a regular file,                                              *)
(*   "broken" a name readdir yields but stat fails on (dangling symlink).  *)
(***************************************************************************)
N(p, k) == [p |-> p, k |-> k]

KindAt(tree, c) ==
    IF \E n \in tree : n.p = c THEN (CHOOSE n \in tree : n.p = c).k ELSE "none"

\* The pieces of s between its '/' bytes, empty pieces included.
RECURSIVE SplitAcc(_, _, _)
SplitAcc(s, cur, acc) ==
    IF s = <<>> THEN Append(acc, cur)
    ELSE IF Head(s) = 47 THEN SplitAcc(Tail(s), <<>>, Append(acc, cur))
    ELSE SplitAcc(Tail(s), Append(cur, Head(s)), acc)

Split(s) == SplitAcc(s, <<>>, <<>>)

IsPlainName(c) == c # <<>> /\ c # Str_dot

\* ".." names the parent of the directory reached so far (the working
\* directory is the root of the tree and its own parent).
RECURSIVE Walk(_, _)
Walk(comps, at) ==
    IF comps = <<>> THEN at
    ELSE IF Head(comps) = Str_dotdot
         THEN Walk(Tail(comps), SubSeq(at, 1, Len(at) - 1))
         ELSE Walk(Tail(comps), Append(at, Head(comps)))

\* Path resolution relative to the working directory: empty components and
\* "." name the directory reached so far.  The node s names.
Components(s) == Walk(SelectSeq(Split(s), IsPlainName), <<>>)

\* Every directory on the way to c can be searched.
Searchable(tree, c) ==
    \A j \in 0..(Len(c) - 1) : KindAt(tree, SubSeq(c, 1, j)) = "dir"

\* A path ending in '/', "/." or "/.." must name a directory.
NeedsDir(s) ==
    LET last == Split(s)[Len(Split(s))]
    IN  ~IsPlainName(last) \/ last = Str_dotdot

\* stat(s, &statbuf) and S_ISDIR: "dir", "file", or "fail" for -1.
Stat(tree, s) ==
    LET c == Components(s)
        k == KindAt(tree, c)
    IN  IF s = <<>> \/ Len(s) >= PATH_MAX THEN "fail"
        ELSE IF ~Searchable(tree, c) \/ k \in {"none", "broken"} THEN "fail"
        ELSE IF k \in {"dir", "nodir"} THEN "dir"
        ELSE IF NeedsDir(s) THEN "fail"
        ELSE "file"

\* opendir(s) returns a stream.
OpenDirOk(tree, s) ==
    Stat(tree, s) = "dir" /\ KindAt(tree, Components(s)) = "dir"

\* The names of the directory s names, as readdir yields them.
ChildNames(tree, s) ==
    LET c == Components(s)
    IN  { n.p[Len(n.p)] : n \in { m \in tree : /\ Len(m.p) = Len(c) + 1
                                              /\ SubSeq(m.p, 1, Len(c)) = c } }

DirStream(tree, s) == {Str_dot, Str_dotdot} \union ChildNames(tree, s)

\* The least name of a non-empty set, byte-wise.
LeastName(S) == CHOOSE x \in S : \A y \in S : strcmp(x, y) <= 0

\* The names readdir may yield next from the unread names of a stream.
NextNames(unread) ==
    IF Cardinality(unread) > MaxPermute THEN {LeastName(unread)} ELSE unread

(***************************************************************************)
(* The trees and command lines of the model.                               *)
(***************************************************************************)
nA == <<97>>
nB == <<98>>
nAB == <<97, 98>>
nUpperB == <<66>>
nEacute == <<195, 169>>

\* Scenario A of the specification: a/  b
TreeTwo == { N(<<>>, "dir"), N(<<nA>>, "dir"), N(<<nB>>, "file") }

\* A name that is a prefix of its sibling's: a/{b}  ab
TreeAlias ==
    { N(<<>>, "dir"), N(<<nA>>, "dir"), N(<<nA, nB>>, "file"),
      N(<<nAB>>, "file") }

\* Scenario A with two more files, whose names order differently byte-wise
\* than in a locale: a/  B  b  é
TreeA ==
    { N(<<>>, "dir"), N(<<nA>>, "dir"), N(<<nB>>, "file"),
      N(<<nUpperB>>, "file"), N(<<nEacute>>, "file") }

\* Nested directories: a/{a/{b}, b}  ab  b/{a}
TreeNest ==
    { N(<<>>, "dir"),
      N(<<nA>>, "dir"), N(<<nA, nA>>, "dir"), N(<<nA, nA, nB>>, "file"),
      N(<<nA, nB>>, "file"),
      N(<<nAB>>, "file"),
      N(<<nB>>, "dir"), N(<<nB, nA>>, "file") }

\* Scenario C: an unreadable directory, a dangling link, a readable one.
TreeErr ==
    { N(<<>>, "dir"),
      N(<<nA>>, "nodir"), N(<<nA, nA>>, "file"),
      N(<<nAB>>, "broken"),
      N(<<nB>>, "dir"), N(<<nB, nA>>, "file"), N(<<nB, nB>>, "broken") }

\* Eleven files a..k: one more than the initial capacity of the array.
TreeBig == { N(<<>>, "dir") } \union { N(<< <<b>> >>, "file") : b \in 97..107 }

\* "." followed by '/' bytes, n bytes long: a name of the working directory.
DotSlashes(n) == [j \in 1..n |-> IF j = 1 THEN 46 ELSE 47]

LongRoots == { DotSlashes(PATH_MAX - k) : k \in 1..MaxSlack }

Cfg(t, c, a, m) == [tree |-> t, argc |-> c, argv1 |-> a, lowmem |-> m]

Configs ==
    \* no argument, and too many
    { Cfg(t, c, <<>>, FALSE) : t \in {TreeA, TreeNest, TreeErr, TreeBig}, c \in {1, 3} }
    \* a subdirectory, or a name that does not exist
    \union { Cfg(t, 2, a, FALSE) : t \in {TreeNest, TreeErr}, a \in {nA, <<122>>} }
    \* long names of the working directory
    \union { Cfg(t, 2, a, FALSE) : t \in {TreeTwo, TreeAlias}, a \in LongRoots }
    \* runs in which an allocation may fail
    \union { Cfg(t, 1, <<>>, TRUE) : t \in {TreeA, TreeNest, TreeErr, TreeBig} }

(***************************************************************************)
(* Sorting.                                                                *)
(***************************************************************************)
\* A DirEntry is [name, is_dir, ptr]: ptr is the heap block strdup returned
\* for name.
\* Mutant: the comparison forgets that directories come first.
compareDirEntries_NamesOnly(entryA, entryB) == strcmp(entryA.name, entryB.name)

compareDirEntries(entryA, entryB) ==
    IF entryA.is_dir # 0 /\ entryB.is_dir = 0 THEN -1
    ELSE IF entryA.is_dir = 0 /\ entryB.is_dir # 0 THEN 1
    ELSE strcmp(entryA.name, entryB.name)

\* e put before the first element of the sorted sequence that it precedes.
RECURSIVE InsertSorted(_, _)
InsertSorted(e, sorted) ==
    IF sorted = <<>> THEN <<e>>
    ELSE IF compareDirEntries(e, Head(sorted)) < 0 THEN <<e>> \o sorted
    ELSE <<Head(sorted)>> \o InsertSorted(e, Tail(sorted))

\* Mutant: the array is printed in the order it was read.
qsort_Unsorted(entries) == entries

\* qsort(entries, num_entries, sizeof(DirEntry), compareDirEntries)
RECURSIVE qsort(_)
qsort(entries) ==
    IF entries = <<>> THEN <<>>
    ELSE InsertSorted(Head(entries), qsort(Tail(entries)))

(***************************************************************************)
(* The state.                                                              *)
(***************************************************************************)
VARIABLES
    fs,       \* the directory tree the run reads
    argc,     \* main's argc
    argv1,    \* argv[1], when argc >= 2
    lowmem,   \* whether malloc, realloc and strdup may return NULL in this run
    pc,       \* "main", "run" (inside list_directory_recursive), "done", "crashed"
    exit,     \* the process's exit status, -1 while it runs
    stack,    \* the active calls of list_directory_recursive, outermost first
    out,      \* the lines written to stdout
    err,      \* the diagnostics written to stderr
    heap,     \* the times each block allocated so far has been freed
    uaf,      \* a block was read after it was freed
    calls,    \* the calls that have returned: [addr, path, result]
    shuffled, \* the calls whose readdir order was not the sorted order
    run,      \* 1 in the first run of the tool, 2 in a second one
    prev      \* what the first run printed, during a second run

vars == <<fs, argc, argv1, lowmem, pc, exit, stack, out, err, heap, uaf,
          calls, shuffled, run, prev>>

env == <<fs, argc, argv1, lowmem>>

\* The frame of the running call, and the stack with that frame replaced.
Top == stack[Len(stack)]
WithTop(f) == [stack EXCEPT ![Len(stack)] = f]

num_entries(f) == Len(f.entries)

\* Mutant: the last index is taken to be num_entries.
is_last_entry_OffByOne(i, n) == i = n

\* int is_last_entry = (i == num_entries - 1);
is_last_entry(i, n) == i = n - 1

\* The address of a call: the indexes i of the entries recursed into, from
\* the root call (<<>>) down.  It identifies the call in out, err and calls.
ChildAddr(f) == Append(f.addr, f.i)

\* A line "prefix connector name\n" printed by the call at address addr for
\* its entry idx; conn is "last" for "└── " and "mid" for "├── ".
EntryLine(f) ==
    LET e == f.entries[f.i + 1]
    IN  [prefix |-> f.prefix,
         conn |-> IF is_last_entry(f.i, num_entries(f)) THEN "last" ELSE "mid",
         name |-> e.name,
         addr |-> f.addr, idx |-> f.i, is_dir |-> e.is_dir,
         level |-> f.indent_level]

\* printf("%s\n", start_path)
RootLine(start_path) ==
    [prefix |-> <<>>, conn |-> "root", name |-> start_path,
     addr |-> <<>>, idx |-> -1, is_dir |-> 1, level |-> -1]

Diag(kind, f, what) == [kind |-> kind, addr |-> f.addr, what |-> what]

\* A pointer names its block by the call that allocated it and by what it
\* holds: the entries array of that call (gen counts the times realloc moved
\* it), or the copy of one name of its directory.
ArrayBlock(owner, gen) ==
    [kind |-> "array", owner |-> owner, name |-> <<>>, gen |-> gen]
NameBlock(owner, name) ==
    [kind |-> "name", owner |-> owner, name |-> name, gen |-> 0]

\* A new call list_directory_recursive(path, indent_level, prefix).
Frame(path, indent_level, prefix, addr) ==
    [path |-> path, indent_level |-> indent_level, prefix |-> prefix,
     addr |-> addr, pc |-> "opendir", unread |-> {}, entries |-> <<>>,
     capacity |-> 0, arr |-> ArrayBlock(addr, 0), i |-> 0]

\* malloc / strdup / realloc returned the new block b.
Alloc(h, b) == (b :> 0) @@ h
\* free(p)
Free(h, p) == [h EXCEPT ![p] = @ + 1]
\* Mutant: the cleanup loop stops one name early.
FreeNames_AllButLast(h, entries) ==
    [b \in DOMAIN h |->
        IF \E j \in 1..(Len(entries) - 1) : entries[j].ptr = b THEN h[b] + 1
        ELSE h[b]]

\* for (i = 0; i < num_entries; i++) free(entries[i].name);
RECURSIVE FreeNames(_, _)
FreeNames(h, entries) ==
    IF entries = <<>> THEN h
    ELSE FreeNames(Free(h, Head(entries).ptr), Tail(entries))

OomCount == Cardinality({ c \in calls : c.result = "oom" })
MayFail == lowmem /\ OomCount < MaxOom

NoPrev == [mode |-> "none", out |-> <<>>, oom |-> {}, shuffled |-> {}]

Init ==
    /\ \E c \in Configs :
          /\ fs = c.tree
          /\ argc = c.argc
          /\ argv1 = c.argv1
          /\ lowmem = c.lowmem
    /\ pc = "main"
    /\ exit = -1
    /\ stack = <<>>
    /\ out = <<>>
    /\ err = <<>>
    /\ heap = << >>
    /\ uaf = FALSE
    /\ calls = {}
    /\ shuffled = {}
    /\ run = 1
    /\ prev = NoPrev

(***************************************************************************)
(* main                                                                    *)
(***************************************************************************)
\* if (argc > 2) { fprintf(stderr, "Usage: ..."); return 1; }
main_usage ==
    /\ pc = "main"
    /\ argc > 2
    /\ err' = Append(err, [kind |-> "usage", addr |-> <<>>, what |-> <<>>])
    /\ exit' = 1
    /\ pc' = "done"
    /\ UNCHANGED <<env, stack, out, heap, uaf, calls, shuffled, run, prev>>

StartPath == IF argc = 2 THEN argv1 ELSE Str_dot

\* printf("%s\n", start_path); list_directory_recursive(start_path, 0, "");
main_start ==
    /\ pc = "main"
    /\ ~(argc > 2)
    /\ out' = Append(out, RootLine(StartPath))
    /\ stack' = <<Frame(StartPath, 0, <<>>, <<>>)>>
    /\ pc' = "run"
    /\ UNCHANGED <<env, exit, err, heap, uaf, calls, shuffled, run, prev>>

(***************************************************************************)
(* list_directory_recursive                                                *)
(***************************************************************************)
\* The names other than "." and ".." that readdir has yielded to frame f.
Yielded(f) == ChildNames(fs, f.path) \ f.unread

\* The running call returns: its frame is popped and recorded, with the
\* names readdir yielded to it; when it was the root call, main returns 0.
Return(result, yielded) ==
    /\ stack' = SubSeq(stack, 1, Len(stack) - 1)
    /\ calls' = calls \union
                  {[addr |-> Top.addr, path |-> Top.path, result |-> result,
                    yielded |-> yielded]}
    /\ pc' = IF Len(stack) = 1 THEN "done" ELSE "run"
    /\ exit' = IF Len(stack) = 1 THEN 0 ELSE exit

\* Mutant: a directory that cannot be opened ends the whole run.
opendir_fail_Exit ==
    /\ pc = "run" /\ Top.pc = "opendir"
    /\ ~OpenDirOk(fs, Top.path)
    /\ err' = Append(err, Diag("opendir", Top, Top.path))
    /\ stack' = <<>>
    /\ calls' = calls \union
                  {[addr |-> Top.addr, path |-> Top.path, result |-> "noopen",
                    yielded |-> {}]}
    /\ pc' = "done"
    /\ exit' = 1
    /\ UNCHANGED <<env, out, heap, uaf, shuffled, run, prev>>

\* if (!(dir = opendir(path))) { fprintf(stderr, ...); return; }
opendir_fail ==
    /\ pc = "run" /\ Top.pc = "opendir"
    /\ ~OpenDirOk(fs, Top.path)
    /\ err' = Append(err, Diag("opendir", Top, Top.path))
    /\ Return("noopen", {})
    /\ UNCHANGED <<env, out, heap, uaf, shuffled, run, prev>>

\* opendir succeeds and entries = malloc(capacity * sizeof(DirEntry)) too.
opendir_ok ==
    /\ pc = "run" /\ Top.pc = "opendir"
    /\ OpenDirOk(fs, Top.path)
    /\ heap' = Alloc(heap, ArrayBlock(Top.addr, 0))
    /\ stack' = WithTop([Top EXCEPT !.pc = "readdir",
                                    !.unread = DirStream(fs, Top.path),
                                    !.capacity = INITIAL_CAPACITY,
                                    !.arr = ArrayBlock(Top.addr, 0)])
    /\ UNCHANGED <<env, pc, exit, out, err, uaf, calls, shuffled, run, prev>>

\* if (!entries) { perror(...); closedir(dir); return; }
malloc_fail ==
    /\ pc = "run" /\ Top.pc = "opendir"
    /\ OpenDirOk(fs, Top.path)
    /\ MayFail
    /\ err' = Append(err, Diag("malloc", Top, Top.path))
    /\ Return("oom", {})
    /\ UNCHANGED <<env, out, heap, uaf, shuffled, run, prev>>

\* strcmp(entry->d_name, ".") == 0 || strcmp(entry->d_name, "..") == 0
IsDots(d_name) == strcmp(d_name, Str_dot) = 0 \/ strcmp(d_name, Str_dotdot) = 0

\* The array after "if (num_entries >= capacity) { capacity *= 2; realloc }"
\* when realloc succeeds: in place, or moved to a new block (realloc then
\* releases the old one).
Grown(h, f, moved) ==
    IF num_entries(f) >= f.capacity
    THEN IF moved
         THEN [heap |-> Alloc(Free(h, f.arr), ArrayBlock(f.addr, f.arr.gen + 1)),
               arr |-> ArrayBlock(f.addr, f.arr.gen + 1),
               capacity |-> f.capacity * 2]
         ELSE [heap |-> h, arr |-> f.arr, capacity |-> f.capacity * 2]
    ELSE [heap |-> h, arr |-> f.arr, capacity |-> f.capacity]

Moves(f) == IF num_entries(f) >= f.capacity THEN BOOLEAN ELSE {FALSE}

\* The next name readdir yields is "." or "..": continue.
read_skip_dots ==
    /\ pc = "run" /\ Top.pc = "readdir"
    /\ \E d_name \in NextNames(Top.unread) :
          /\ IsDots(d_name)
          /\ stack' = WithTop([Top EXCEPT !.unread = @ \ {d_name}])
    /\ UNCHANGED <<env, pc, exit, out, err, heap, uaf, calls, shuffled, run, prev>>

\* Mutant: the diagnostic is written but the entry is not skipped; it is
\* stored as a non-directory.
read_stat_fail_NoContinue ==
    /\ pc = "run" /\ Top.pc = "readdir"
    /\ num_entries(Top) < Top.capacity
    /\ \E d_name \in NextNames(Top.unread) :
          LET e == [name |-> d_name, is_dir |-> 0,
                    ptr |-> NameBlock(Top.addr, d_name)]
          IN  /\ ~IsDots(d_name)
              /\ Stat(fs, JoinPath(Top.path, d_name)) = "fail"
              /\ err' = Append(err, Diag("stat", Top, d_name))
              /\ heap' = Alloc(heap, NameBlock(Top.addr, d_name))
              /\ stack' = WithTop([Top EXCEPT !.unread = @ \ {d_name},
                                              !.entries = Append(@, e)])
    /\ UNCHANGED <<env, pc, exit, out, uaf, calls, shuffled, run, prev>>

\* if (stat(full_path, &statbuf) == -1) { perror(...); continue; }
read_stat_fail ==
    /\ pc = "run" /\ Top.pc = "readdir"
    /\ \E d_name \in NextNames(Top.unread) :
          /\ ~IsDots(d_name)
          /\ Stat(fs, JoinPath(Top.path, d_name)) = "fail"
          /\ err' = Append(err, Diag("stat", Top, d_name))
          /\ stack' = WithTop([Top EXCEPT !.unread = @ \ {d_name}])
    /\ UNCHANGED <<env, pc, exit, out, heap, uaf, calls, shuffled, run, prev>>

\* The entry is stored: entries[num_entries].name = strdup(d_name);
\* entries[num_entries].is_dir = S_ISDIR(statbuf.st_mode); num_entries++;
read_append ==
    /\ pc = "run" /\ Top.pc = "readdir"
    /\ \E d_name \in NextNames(Top.unread), moved \in Moves(Top) :
          LET st == Stat(fs, JoinPath(Top.path, d_name))
              g == Grown(heap, Top, moved)
              e == [name |-> d_name,
                    is_dir |-> IF st = "dir" THEN 1 ELSE 0,
                    ptr |-> NameBlock(Top.addr, d_name)]
          IN  /\ ~IsDots(d_name)
              /\ st # "fail"
              /\ heap' = Alloc(g.heap, NameBlock(Top.addr, d_name))
              /\ stack' = WithTop([Top EXCEPT !.unread = @ \ {d_name},
                                              !.capacity = g.capacity,
                                              !.arr = g.arr,
                                              !.entries = Append(@, e)])
    /\ UNCHANGED <<env, pc, exit, out, err, uaf, calls, shuffled, run, prev>>

\* if (!new_entries) { perror(...); free every name; free(entries);
\*                     closedir(dir); return; }
read_realloc_fail ==
    /\ pc = "run" /\ Top.pc = "readdir"
    /\ MayFail
    /\ num_entries(Top) >= Top.capacity
    /\ \E d_name \in NextNames(Top.unread) :
          /\ ~IsDots(d_name)
          /\ Stat(fs, JoinPath(Top.path, d_name)) # "fail"
          /\ err' = Append(err, Diag("realloc", Top, d_name))
          /\ Return("oom", Yielded(Top) \union {d_name})
    /\ heap' = Free(FreeNames(heap, Top.entries), Top.arr)
    /\ UNCHANGED <<env, out, uaf, shuffled, run, prev>>

\* if (!entries[num_entries].name) { perror(...); free every name;
\*                                   free(entries); closedir(dir); return; }
read_strdup_fail ==
    /\ pc = "run" /\ Top.pc = "readdir"
    /\ MayFail
    /\ \E d_name \in NextNames(Top.unread), moved \in Moves(Top) :
          LET g == Grown(heap, Top, moved)
          IN  /\ ~IsDots(d_name)
              /\ Stat(fs, JoinPath(Top.path, d_name)) # "fail"
              /\ err' = Append(err, Diag("strdup", Top, d_name))
              /\ heap' = Free(FreeNames(g.heap, Top.entries), g.arr)
              /\ Return("oom", Yielded(Top) \union {d_name})
    /\ UNCHANGED <<env, out, uaf, shuffled, run, prev>>

\* readdir returns NULL: closedir(dir); qsort(...); i = 0
readdir_end ==
    /\ pc = "run" /\ Top.pc = "readdir"
    /\ Top.unread = {}
    /\ stack' = WithTop([Top EXCEPT !.pc = "print",
                                    !.entries = qsort(@),
                                    !.i = 0])
    /\ shuffled' = IF qsort(Top.entries) = Top.entries THEN shuffled
                   ELSE shuffled \union {Top.addr}
    /\ UNCHANGED <<env, pc, exit, out, err, heap, uaf, calls, run, prev>>

\* The block p is read.
Use(h, p) == h[p] > 0

\* The call made for the directory entry i of frame f.
ChildFrame(f) ==
    LET e == f.entries[f.i + 1]
    IN  Frame(JoinPath(f.path, e.name), f.indent_level + 1,
              NewPrefix(f.prefix, is_last_entry(f.i, num_entries(f))),
              ChildAddr(f))

\* Mutant: the line of a directory entry is not printed before the call.
print_entry_NoDirLine ==
    /\ pc = "run" /\ Top.pc = "print"
    /\ Top.i < num_entries(Top)
    /\ LET f == Top
           e == f.entries[f.i + 1]
           caller == [f EXCEPT !.pc = "free"]
       IN  /\ e.is_dir # 0 => Len(stack) < StackFrames
           /\ out' = IF e.is_dir # 0 THEN out ELSE Append(out, EntryLine(f))
           /\ uaf' = (uaf \/ Use(heap, f.arr) \/ Use(heap, e.ptr))
           /\ stack' = IF e.is_dir # 0
                       THEN Append(WithTop(caller), ChildFrame(f))
                       ELSE WithTop(caller)
    /\ UNCHANGED <<env, pc, exit, err, heap, calls, shuffled, run, prev>>

\* One pass of the loop body up to line 158: the entry's line is printed
\* and, if it is a directory, list_directory_recursive is called.
print_entry ==
    /\ pc = "run" /\ Top.pc = "print"
    /\ Top.i < num_entries(Top)
    /\ LET f == Top
           e == f.entries[f.i + 1]
           caller == [f EXCEPT !.pc = "free"]
       IN  /\ e.is_dir # 0 => Len(stack) < StackFrames
           /\ out' = Append(out, EntryLine(f))
           /\ uaf' = (uaf \/ Use(heap, f.arr) \/ Use(heap, e.ptr))
           /\ stack' = IF e.is_dir # 0
                       THEN Append(WithTop(caller), ChildFrame(f))
                       ELSE WithTop(caller)
    /\ UNCHANGED <<env, pc, exit, err, heap, calls, shuffled, run, prev>>

\* The same pass when the stack has no room for the call's frame: the line
\* is printed, then the process is killed by SIGSEGV.
stack_overflow ==
    /\ pc = "run" /\ Top.pc = "print"
    /\ Top.i < num_entries(Top)
    /\ Top.entries[Top.i + 1].is_dir # 0
    /\ Len(stack) >= StackFrames
    /\ out' = Append(out, EntryLine(Top))
    /\ pc' = "crashed"
    /\ exit' = 139
    /\ UNCHANGED <<env, stack, err, heap, uaf, calls, shuffled, run, prev>>

\* free(current_entry.name); i++
free_entry ==
    /\ pc = "run" /\ Top.pc = "free"
    /\ heap' = Free(heap, Top.entries[Top.i + 1].ptr)
    /\ stack' = WithTop([Top EXCEPT !.pc = "print", !.i = @ + 1])
    /\ UNCHANGED <<env, pc, exit, out, err, uaf, calls, shuffled, run, prev>>

\* The loop is over: free(entries); return
return_ok ==
    /\ pc = "run" /\ Top.pc = "print"
    /\ ~(Top.i < num_entries(Top))
    /\ heap' = Free(heap, Top.arr)
    /\ Return("ok", Yielded(Top))
    /\ UNCHANGED <<env, out, err, uaf, shuffled, run, prev>>

\* What a line shows on the terminal.
Printed(l) == [prefix |-> l.prefix, conn |-> l.conn, name |-> l.name]
PrintedOut == [j \in 1..Len(out) |-> Printed(out[j])]

\* The calls that returned early because an allocation failed.
OomAddrs == { c.addr : c \in { d \in calls : d.result = "oom" } }

\* The tree with every unreadable directory replaced by an empty, readable
\* one.
Emptied(tree) ==
    { IF n.k = "nodir" THEN N(n.p, "dir") ELSE n :
        n \in { m \in tree : \A j \in 0..(Len(m.p) - 1) :
                                KindAt(tree, SubSeq(m.p, 1, j)) # "nodir" } }

\* The tool is started again with the same command line, on tree.
Restart(mode, tree) ==
    /\ pc = "done" /\ run = 1
    /\ prev' = [mode |-> mode, out |-> PrintedOut, oom |-> OomAddrs,
                shuffled |-> shuffled]
    /\ run' = 2
    /\ fs' = tree
    /\ pc' = "main"
    /\ exit' = -1
    /\ stack' = <<>>
    /\ out' = <<>>
    /\ err' = <<>>
    /\ heap' = << >>
    /\ uaf' = FALSE
    /\ calls' = {}
    /\ shuffled' = {}
    /\ UNCHANGED <<argc, argv1, lowmem>>

\* A second run on the unmodified tree.
rerun_same ==
    /\ run = 1
    /\ Restart("same", fs)

\* A second run on the tree whose unreadable directories are empty instead.
rerun_emptied ==
    /\ \E n \in fs : n.k = "nodir"
    /\ Restart("emptied", Emptied(fs))

Next ==
    \/ main_usage
    \/ main_start
    \/ opendir_fail
    \/ opendir_ok
    \/ malloc_fail
    \/ read_skip_dots
    \/ read_stat_fail
    \/ read_append
    \/ read_realloc_fail
    \/ read_strdup_fail
    \/ readdir_end
    \/ print_entry
    \/ stack_overflow
    \/ free_entry
    \/ return_ok

Spec == Init /\ [][Next]_vars

\* Two runs of the tool, one after the other.
NextTwice ==
    \/ Next
    \/ rerun_same
    \/ rerun_emptied

SpecTwice == Init /\ [][NextTwice]_vars


(***************************************************************************)
(* Vocabulary of the properties.                                           *)
(***************************************************************************)
IsEntry(l) == l.conn # "root"

\* The address of the entry a line shows: that of the call made for it, if
\* it is a directory.
NodeAddr(l) == Append(l.addr, l.idx)

IsPrefixOf(a, b) == Len(a) <= Len(b) /\ SubSeq(b, 1, Len(a)) = a

\* Positions in out of the lines printed directly under the call at a.
LinesUnder(a) == { j \in 1..Len(out) : IsEntry(out[j]) /\ out[j].addr = a }

\* s <= t in byte-wise lexicographic order.
RECURSIVE BytesLeq(_, _)
BytesLeq(s, t) ==
    \/ s = <<>>
    \/ /\ t # <<>>
       /\ \/ Head(s) < Head(t)
          \/ Head(s) = Head(t) /\ BytesLeq(Tail(s), Tail(t))

DiagCount(kind, a) ==
    Cardinality({ j \in 1..Len(err) : err[j].kind = kind /\ err[j].addr = a })

(***************************************************************************)
(* C1.  Under one parent the printed lines are ordered by the key of       *)
(* compareDirEntries: no line of an entry recorded as a file comes before  *)
(* a line of an entry recorded as a directory, and lines of entries of the *)
(* same kind come in non-decreasing byte-wise order of name, whatever the  *)
(* order readdir yielded them in.                                          *)
(***************************************************************************)
C1_SortedUnderParent ==
    \A p, q \in 1..Len(out) :
        (p < q /\ IsEntry(out[p]) /\ IsEntry(out[q]) /\ out[p].addr = out[q].addr)
        => /\ ~(out[p].is_dir = 0 /\ out[q].is_dir # 0)
           /\ ((out[p].is_dir = 0) = (out[q].is_dir = 0))
                 => BytesLeq(out[p].name, out[q].name)

\* A finished run in which a directory read out of order shows at least
\* three lines, a file and two directories among them.
C1_Witness ==
    /\ pc = "done"
    /\ \E a \in shuffled :
          /\ \E j \in LinesUnder(a) : out[j].is_dir = 0
          /\ \E j, k \in LinesUnder(a) :
                j # k /\ out[j].is_dir # 0 /\ out[k].is_dir # 0

(***************************************************************************)
(* C2.  The output is a pre-order depth-first traversal: the line of a     *)
(* directory entry comes before the lines of its descendants, siblings     *)
(* come in the order of their parent's sorted array, and every line below  *)
(* an entry comes before the line of that entry's next sibling.            *)
(***************************************************************************)
C2_PreOrder ==
    /\ \A q \in 1..Len(out) :
          (IsEntry(out[q]) /\ out[q].addr # <<>>)
          => \E p \in 1..(q - 1) :
                IsEntry(out[p]) /\ NodeAddr(out[p]) = out[q].addr
    /\ \A p, q \in 1..Len(out) :
          (p < q /\ IsEntry(out[p]) /\ IsEntry(out[q]) /\ out[p].addr = out[q].addr)
          => /\ out[p].idx < out[q].idx
             /\ \A r \in 1..Len(out) :
                   (IsEntry(out[r]) /\ IsPrefixOf(NodeAddr(out[p]), out[r].addr))
                   => (p < r /\ r < q)

\* A finished run with a line two levels below a directory entry whose next
\* sibling is printed too.
C2_Witness ==
    /\ pc = "done"
    /\ \E p, r, q \in 1..Len(out) :
          /\ IsEntry(out[p]) /\ IsEntry(out[q]) /\ IsEntry(out[r])
          /\ out[p].addr = out[q].addr /\ out[q].idx = out[p].idx + 1
          /\ IsPrefixOf(NodeAddr(out[p]), out[r].addr)
          /\ Len(out[r].addr) > Len(out[p].addr) + 1

(***************************************************************************)
(* C3.  The prefix of a directory's children is the prefix of the          *)
(* directory's own line extended by one unit, "    " if that line is the   *)
(* last of its siblings and "│   " if not; at depth 0 it is empty.          *)
(***************************************************************************)
C3_PrefixUnits ==
    \A q \in 1..Len(out) :
        IsEntry(out[q])
        => /\ out[q].level = 0 => out[q].prefix = <<>>
           /\ \A p \in 1..Len(out) :
                 (IsEntry(out[p]) /\ NodeAddr(out[p]) = out[q].addr)
                 => out[q].prefix =
                       out[p].prefix \o (IF out[p].conn = "last" THEN Str_spaces
                                                                 ELSE Str_bar)

(***************************************************************************)
(* C4.  The number of lines printed directly under a directory is the      *)
(* number of its children other than "." and ".." minus the number of      *)
(* those whose stat failed.                                                *)
(***************************************************************************)
ExpectedLines(c) == Cardinality(c.yielded) - DiagCount("stat", c.addr)

\* C4 as claimed: for every directory, and the children enumerated for it.
C4_LineCount_AnyListing ==
    \A c \in calls : Cardinality(LinesUnder(c.addr)) = ExpectedLines(c)

\* C4 as amended: for every directory whose listing met no allocation failure;
\* and each child that was classified has exactly one line.
C4_LineCount ==
    \A c \in calls :
        c.result = "ok"
        => /\ c.yielded = ChildNames(fs, c.path)
           /\ Cardinality(LinesUnder(c.addr)) = ExpectedLines(c)
           /\ \A n \in c.yielded :
                 (~\E j \in 1..Len(err) : /\ err[j].kind = "stat"
                                          /\ err[j].addr = c.addr
                                          /\ err[j].what = n)
                 => Cardinality({ j \in LinesUnder(c.addr) : out[j].name = n }) = 1

\* A directory with a child whose stat failed and a child that is printed
\* has been listed to the end.
C4_Witness ==
    \E c \in calls :
        /\ c.result = "ok"
        /\ DiagCount("stat", c.addr) > 0
        /\ LinesUnder(c.addr) # {}

(***************************************************************************)
(* C5.  Among the lines printed directly under a directory, the last one   *)
(* and only the last one (index count-1) has the connector "└── "; the     *)
(* others have "├── ".                                                     *)
(***************************************************************************)
C5_Connectors ==
    /\ \A p, q \in 1..Len(out) :
          (p < q /\ IsEntry(out[p]) /\ IsEntry(out[q]) /\ out[p].addr = out[q].addr)
          => out[p].conn = "mid"
    /\ \A c \in calls :
          (c.result = "ok" /\ LinesUnder(c.addr) # {})
          => \E j \in LinesUnder(c.addr) :
                /\ \A k \in LinesUnder(c.addr) : k <= j
                /\ out[j].conn = "last"
                /\ out[j].idx = Cardinality(LinesUnder(c.addr)) - 1

\* A directory with at least three printed entries has been listed to the end.
C5_Witness ==
    \E c \in calls : c.result = "ok" /\ Cardinality(LinesUnder(c.addr)) >= 3

(***************************************************************************)
(* C6.  When parent + "/" + name does not fit in PATH_MAX bytes, the       *)
(* error is reported and the entry is not recursed into: every recursive   *)
(* call is made with exactly parent + "/" + name.                          *)
(***************************************************************************)
TooLong(parent, name) == Len(parent) + 1 + Len(name) + 1 > PATH_MAX

C7_UnopenableAsEmpty ==
    /\ \A c \in calls :
          c.result = "noopen"
          => /\ DiagCount("opendir", c.addr) = 1
             /\ LinesUnder(c.addr) = {}
             /\ IF c.addr = <<>>
                THEN out[1] = RootLine(c.path)
                ELSE \E j \in 1..Len(out) :
                        IsEntry(out[j]) /\ NodeAddr(out[j]) = c.addr
    /\ (run = 2 /\ prev.mode = "emptied" /\ pc = "done" /\ OomAddrs = prev.oom)
          => PrintedOut = prev.out

\* The second run, on the tree with the unreadable directory emptied, has
\* finished: that directory was listed, and a later sibling and its subtree
\* were printed in both runs.
C7_Witness ==
    /\ run = 2 /\ prev.mode = "emptied" /\ pc = "done"
    /\ \E c \in calls :
          /\ c.result = "ok" /\ c.addr # <<>> /\ LinesUnder(c.addr) = {}
          /\ \E j \in 1..Len(out) :
                /\ IsEntry(out[j])
                /\ out[j].addr = SubSeq(c.addr, 1, Len(c.addr) - 1)
                /\ out[j].idx > c.addr[Len(c.addr)]
                /\ LinesUnder(NodeAddr(out[j])) # {}
    /\ Len(prev.out) = Len(out)

(***************************************************************************)
(* C8.  The exit status is non-zero exactly when argc > 2; then usage is   *)
(* reported and nothing is printed or listed.  In every other run the root *)
(* path is the first line and the exit status is 0.                        *)
(***************************************************************************)
C8_ExitStatus ==
    pc \in {"done", "crashed"}
    => /\ (exit # 0) <=> (argc > 2)
       /\ argc > 2 => /\ out = <<>>
                      /\ calls = {}
                      /\ \E j \in 1..Len(err) : err[j].kind = "usage"
       /\ ~(argc > 2) => /\ out # <<>>
                         /\ out[1] = RootLine(StartPath)
                         /\ exit = 0

(***************************************************************************)
(* C9.  Two runs on the same unmodified tree print the same output, also   *)
(* when readdir yields the children in another order.                      *)
(***************************************************************************)
\* C9 as claimed: a second run on the same tree prints the same bytes.
C9_SameOutput_AnyRun ==
    (run = 2 /\ prev.mode = "same" /\ pc = "done") => PrintedOut = prev.out

\* C9 as amended: when allocation failed in the listings of the same
\* directories in both runs.
C9_SameOutput ==
    (run = 2 /\ prev.mode = "same" /\ pc = "done" /\ OomAddrs = prev.oom)
    => PrintedOut = prev.out

\* Both runs have finished, and a directory with several lines was read in
\* sorted order in one run and out of order in the other.
C9_Witness ==
    /\ run = 2 /\ prev.mode = "same" /\ pc = "done" /\ OomAddrs = prev.oom
    /\ \E a \in shuffled : a \notin prev.shuffled /\ Cardinality(LinesUnder(a)) >= 2
    /\ Len(out) >= 4

(***************************************************************************)
(* C10.  No block is released twice or read after its release; when a call *)
(* has returned, on any path, every name it allocated and every array it   *)
(* held has been released once; and outside the failure paths a name is    *)
(* released only after its line was printed and, for a directory entry,    *)
(* after the recursive call for it returned.                               *)
(***************************************************************************)
C10_ReleasedOnce ==
    /\ ~uaf
    /\ \A b \in DOMAIN heap :
          /\ heap[b] <= 1
          /\ (\E c \in calls : c.addr = b.owner) => heap[b] = 1
          /\ (b.kind = "name" /\ heap[b] = 1
                /\ ~\E c \in calls : c.addr = b.owner /\ c.result = "oom")
             => \E j \in 1..Len(out) :
                   /\ IsEntry(out[j])
                   /\ out[j].addr = b.owner /\ out[j].name = b.name
                   /\ out[j].is_dir # 0
                         => \E c \in calls : c.addr = NodeAddr(out[j])

\* A listing of more than INITIAL_CAPACITY entries was abandoned when
\* realloc failed, after it had duplicated INITIAL_CAPACITY names.
C10_Witness ==
    /\ pc = "done"
    /\ \E c \in calls :
          /\ c.result = "oom"
          /\ DiagCount("realloc", c.addr) = 1
          /\ Cardinality({ b \in DOMAIN heap :
                             b.owner = c.addr /\ b.kind = "name" })
                >= INITIAL_CAPACITY

=============================================================================
